---------------------------- MODULE Spec2Model ----------------------------
(***************************************************************************)
(* InputComponent (lm-ui-input) of angular-components-master/input.        *)
(*                                                                         *)
(* A JavaScript string is a sequence of one-character strings, so that     *)
(* substr, replace(/[^\d]/g, ''), Number(...) and toString() are computed  *)
(* character by character as the engine computes them.                     *)
(***************************************************************************)
EXTENDS Integers, Sequences, FiniteSets, TLC

(***************************************************************************)
(* Bounds of the model.                                                    *)
(***************************************************************************)
\* Longest raw string typed / written in the interaction model (Spec).
MaxLen == 2
\* Largest maxLength bound through @Input() in the interaction model.
MaxMaxLength == 1
\* Longest raw string of the value-processing model (SpecFixed).
FnMaxLen == 3
\* Largest maxLength of the value-processing model (SpecFixed).
FnMaxMaxLength == 2
\* Number of trailing zeros of the long all-digit raw inputs ("1000...0").
LongZeros == 21

(***************************************************************************)
(* Strings.                                                                *)
(***************************************************************************)
Digits == {"0", "1", "2", "3", "4", "5", "6", "7", "8", "9"}

EmptyString == << >>

RECURSIVE Strs(_, _)
\* All strings over alphabet A of length at most n.
Strs(A, n) ==
  IF n = 0 THEN {EmptyString}
  ELSE LET shorter == Strs(A, n - 1)
       IN  shorter \cup {Append(s, c) : s \in shorter, c \in A}

RECURSIVE Zeros(_)
Zeros(n) == IF n <= 0 THEN EmptyString ELSE <<"0">> \o Zeros(n - 1)

\* String.prototype.substr(0, n) for n >= 0.
substr0(s, n) == IF n >= Len(s) THEN s ELSE SubSeq(s, 1, n)

\* s.replace(/[^\d]/g, '')
IsDigit(c) == c \in Digits
removeNonDigits(s) == SelectSeq(s, IsDigit)

AllDigits(s) == \A i \in 1..Len(s) : s[i] \in Digits

RECURSIVE StripLeadingZeros(_)
StripLeadingZeros(s) ==
  IF s # EmptyString /\ Head(s) = "0" THEN StripLeadingZeros(Tail(s)) ELSE s

RECURSIVE StripTrailingZeros(_)
StripTrailingZeros(s) ==
  IF s # EmptyString /\ s[Len(s)] = "0"
  THEN StripTrailingZeros(SubSeq(s, 1, Len(s) - 1))
  ELSE s

DigitValue(c) ==
  CASE c = "0" -> 0 [] c = "1" -> 1 [] c = "2" -> 2 [] c = "3" -> 3
    [] c = "4" -> 4 [] c = "5" -> 5 [] c = "6" -> 6 [] c = "7" -> 7
    [] c = "8" -> 8 [] c = "9" -> 9

DigitChar(d) ==
  CASE d = 0 -> "0" [] d = 1 -> "1" [] d = 2 -> "2" [] d = 3 -> "3"
    [] d = 4 -> "4" [] d = 5 -> "5" [] d = 6 -> "6" [] d = 7 -> "7"
    [] d = 8 -> "8" [] d = 9 -> "9"

RECURSIVE DigitsToNat(_)
\* Value of a short digit string (used for exponents only).
DigitsToNat(s) ==
  IF s = EmptyString THEN 0
  ELSE 10 * DigitsToNat(SubSeq(s, 1, Len(s) - 1)) + DigitValue(s[Len(s)])

RECURSIVE NatToDigits(_)
NatToDigits(n) ==
  IF n < 10 THEN <<DigitChar(n)>>
  ELSE Append(NatToDigits(n \div 10), DigitChar(n % 10))

(***************************************************************************)
(* Number(string) and Number.prototype.toString(), ECMA-262 StringToNumber *)
(* and Number::toString.  A Number value is NaN, a zero, an infinity, or a *)
(* finite value 0.d1d2...dk * 10^n given by its significant decimal digits *)
(* (no leading or trailing zero) and the position n of the decimal point.  *)
(* The decimal digits are exact for values of at most 15 significant       *)
(* digits (every such decimal survives the round trip through a double);   *)
(* the raw inputs of the model stay within that range.  Hexadecimal,       *)
(* octal and binary literals need the letters x, o, b, which no string of  *)
(* the model contains.                                                     *)
(***************************************************************************)
\* Number::toString switches to exponent notation above this many integer digits.
MaxPlainDigits == 21
\* Largest / smallest decimal point position of a finite non-zero double.
MaxDecimalExponent == 309
MinDecimalExponent == -323

WhiteSpace == {" "}

RECURSIVE TrimLeft(_)
TrimLeft(s) ==
  IF s # EmptyString /\ Head(s) \in WhiteSpace THEN TrimLeft(Tail(s)) ELSE s

RECURSIVE TrimRight(_)
TrimRight(s) ==
  IF s # EmptyString /\ s[Len(s)] \in WhiteSpace
  THEN TrimRight(SubSeq(s, 1, Len(s) - 1))
  ELSE s

\* Index of the first character of s that is in set C, 0 if there is none.
IndexOf(s, C) ==
  LET hits == {i \in 1..Len(s) : s[i] \in C}
  IN  IF hits = {} THEN 0 ELSE CHOOSE i \in hits : \A j \in hits : i <= j

NaN == [kind |-> "nan"]
Zero == [kind |-> "zero"]
Infinite(neg) == [kind |-> "inf", neg |-> neg]
Finite(neg, digits, point) ==
  [kind |-> "fin", neg |-> neg, digits |-> digits, point |-> point]

\* StrUnsignedDecimalLiteral: DecimalDigits [. [DecimalDigits]] [ExponentPart]
\*                          | . DecimalDigits [ExponentPart]
ParseUnsignedDecimal(neg, body) ==
  LET ePos     == IndexOf(body, {"e", "E"})
      mantissa == IF ePos = 0 THEN body ELSE SubSeq(body, 1, ePos - 1)
      expPart  == IF ePos = 0 THEN EmptyString ELSE SubSeq(body, ePos + 1, Len(body))
      expSigned == expPart # EmptyString /\ Head(expPart) \in {"+", "-"}
      expNeg   == expSigned /\ Head(expPart) = "-"
      expDigits == IF expSigned THEN Tail(expPart) ELSE expPart
      dot      == IndexOf(mantissa, {"."})
      intPart  == IF dot = 0 THEN mantissa ELSE SubSeq(mantissa, 1, dot - 1)
      fracPart == IF dot = 0 THEN EmptyString ELSE SubSeq(mantissa, dot + 1, Len(mantissa))
      wellFormed ==
        /\ AllDigits(intPart)
        /\ AllDigits(fracPart)
        /\ Len(intPart) + Len(fracPart) >= 1
        /\ ePos # 0 => (expDigits # EmptyString /\ AllDigits(expDigits))
  IN  IF ~wellFormed THEN NaN
      ELSE
        LET exponent == IF ePos = 0 THEN 0
                        ELSE IF expNeg THEN 0 - DigitsToNat(StripLeadingZeros(expDigits))
                        ELSE DigitsToNat(StripLeadingZeros(expDigits))
            all      == intPart \o fracPart
            lead     == StripLeadingZeros(all)
            digits   == StripTrailingZeros(lead)
            point    == Len(intPart) + exponent - (Len(all) - Len(lead))
        IN  IF digits = EmptyString THEN Zero
            ELSE IF point > MaxDecimalExponent THEN Infinite(neg)
            ELSE IF point < MinDecimalExponent THEN Zero
            ELSE Finite(neg, digits, point)

InfinityLiteral == <<"I", "n", "f", "i", "n", "i", "t", "y">>

\* Number(s) for a string s.
StringToNumber(s) ==
  LET t      == TrimRight(TrimLeft(s))
      signed == t # EmptyString /\ Head(t) \in {"+", "-"}
      neg    == signed /\ Head(t) = "-"
      body   == IF signed THEN Tail(t) ELSE t
  IN  IF t = EmptyString THEN Zero
      ELSE IF body = InfinityLiteral THEN Infinite(neg)
      ELSE ParseUnsignedDecimal(neg, body)

\* Number::toString(x), radix 10.
NumberToString(x) ==
  CASE x.kind = "nan"  -> <<"N", "a", "N">>
    [] x.kind = "zero" -> <<"0">>
    [] x.kind = "inf"  -> (IF x.neg THEN <<"-">> ELSE EmptyString) \o InfinityLiteral
    [] x.kind = "fin"  ->
         LET s == x.digits
             k == Len(x.digits)
             n == x.point
             e == n - 1
             unsigned ==
               IF k <= n /\ n <= MaxPlainDigits THEN s \o Zeros(n - k)
               ELSE IF 0 < n /\ n <= MaxPlainDigits
                 THEN SubSeq(s, 1, n) \o <<".">> \o SubSeq(s, n + 1, k)
               ELSE IF -6 < n /\ n <= 0
                 THEN <<"0", ".">> \o Zeros(0 - n) \o s
               ELSE
                 LET expText == (IF e < 0 THEN <<"e", "-">> ELSE <<"e", "+">>)
                                  \o NatToDigits(IF e < 0 THEN 0 - e ELSE e)
                 IN  IF k = 1 THEN s \o expText
                     ELSE <<Head(s), ".">> \o Tail(s) \o expText
         IN  (IF x.neg THEN <<"-">> ELSE EmptyString) \o unsigned

\* Number(s).toString(), evaluated once for the short strings over the characters
\* of CachedAlphabet and looked up afterwards.
CachedAlphabet == {"0", "1", ".", "a"}
CachedLen == 3
CoercionCache ==
  [s \in Strs(CachedAlphabet, CachedLen) |-> NumberToString(StringToNumber(s))]

\* Number(processed).toString()
numberCoercion(s) ==
  IF s \in DOMAIN CoercionCache
  THEN CoercionCache[s]
  ELSE NumberToString(StringToNumber(s))

(***************************************************************************)
(* Inputs of the component.                                                *)
(***************************************************************************)
\* Characters typed in the interaction model: a digit and a non-digit.
Alphabet == {"1", "."}
\* Characters typed in the value-processing model.
FnAlphabet == {"0", "1", ".", "a"}

\* A value handed to valueStream$.next: null / undefined, or a string.
NullValue == [isNull |-> TRUE, str |-> EmptyString]
StringValue(s) == [isNull |-> FALSE, str |-> s]

\* The raw texts of input events, and the values written or bound.
Texts == Strs(Alphabet, MaxLen)
Values == {NullValue} \cup {StringValue(s) : s \in Texts}

\* All-digit raw inputs longer than MaxPlainDigits.
LongInputs == {<<"1">> \o Zeros(LongZeros)}
FixedInputs == Strs(FnAlphabet, FnMaxLen) \cup LongInputs

\* The numeric @Input() as the parent binds it: null, or an options object in
\* which the integer key may be missing.
NoNumeric ==
  [present |-> FALSE, integer |-> FALSE, preventEmpty |-> FALSE, percents |-> FALSE]
NumericBindings ==
  {[present |-> FALSE, hasInteger |-> FALSE, integer |-> FALSE,
    preventEmpty |-> FALSE, percents |-> FALSE]}
  \cup {b \in [present : {TRUE}, hasInteger : BOOLEAN, integer : BOOLEAN,
               preventEmpty : BOOLEAN, percents : BOOLEAN] :
          ~b.hasInteger => ~b.integer}

DEFAULT_NUMERIC_OPTIONS == [integer |-> TRUE]

\* { ...DEFAULT_NUMERIC_OPTIONS, ...changes.numeric.currentValue } or null
mergeNumericOptions(b) ==
  IF ~b.present THEN NoNumeric
  ELSE [present      |-> TRUE,
        integer      |-> IF b.hasInteger THEN b.integer
                         ELSE DEFAULT_NUMERIC_OPTIONS.integer,
        preventEmpty |-> b.preventEmpty,
        percents     |-> b.percents]

NumericOptions == {mergeNumericOptions(b) : b \in NumericBindings}

\* SimpleChanges: which of numeric, maxLength and value changed, and to what.
NoChanges ==
  [hasNumeric |-> FALSE, numeric |-> CHOOSE b \in NumericBindings : ~b.present,
   hasMaxLength |-> FALSE, maxLength |-> 0,
   hasValue |-> FALSE, value |-> NullValue]
SimpleChanges ==
  {NoChanges}
  \cup {[NoChanges EXCEPT !.hasNumeric = TRUE, !.numeric = b] : b \in NumericBindings}
  \cup {[NoChanges EXCEPT !.hasMaxLength = TRUE, !.maxLength = n] : n \in 0..MaxMaxLength}
  \cup {[NoChanges EXCEPT !.hasValue = TRUE, !.value = v] : v \in Values}

(***************************************************************************)
(* Pure helpers of the component.                                          *)
(***************************************************************************)
\* Faulty variant: null is stringified like any other value.
toStringOrEmpty_nullText(value) ==
  IF value.isNull THEN <<"n", "u", "l", "l">> ELSE value.str

\* map(value => (value !== null && value !== undefined) ? value.toString() : '')
toStringOrEmpty(value) == IF value.isNull THEN EmptyString ELSE value.str

\* Faulty variant: preventEmpty is ignored, an empty string is never coerced.
applyNumericCompliance_ignorePreventEmpty(value, numericOptions) ==
  LET filtered  == IF numericOptions.integer THEN removeNonDigits(value) ELSE value
  IN  IF Len(filtered) > 0
      THEN numberCoercion(filtered)
      ELSE filtered

applyNumericCompliance(value, numericOptions) ==
  LET filtered  == IF numericOptions.integer THEN removeNonDigits(value) ELSE value
  IN  IF Len(filtered) > 0 \/ numericOptions.preventEmpty
      THEN numberCoercion(filtered)
      ELSE filtered

\* Faulty variant: the numeric compliance runs first and its result is clamped.
processInputValue_filterFirst(value, maxLen, numericOptions) ==
  LET complied == IF numericOptions.present
                  THEN applyNumericCompliance(value, numericOptions)
                  ELSE value
  IN  IF maxLen # 0 /\ Len(complied) > maxLen
      THEN substr0(complied, maxLen)
      ELSE complied

\* maxLen = 0 stands for an unset (undefined) or zero maxLength: both are falsy.
processInputValue(value, maxLen, numericOptions) ==
  LET clamped == IF maxLen # 0 /\ Len(value) > maxLen
                 THEN substr0(value, maxLen)
                 ELSE value
  IN  IF numericOptions.present
      THEN applyNumericCompliance(clamped, numericOptions)
      ELSE clamped

toPercentString(value) ==
  IF Len(value) > 0 THEN value \o <<"%">> ELSE EmptyString

\* Faulty variant: the decoration is keyed on the integer flag instead of percents.
getDecoratedValue_integerFlag(value, numericOptions) ==
  IF numericOptions.present /\ numericOptions.integer /\ Len(value) > 0
  THEN toPercentString(value)
  ELSE value

getDecoratedValue(value, numericOptions) ==
  IF numericOptions.present /\ numericOptions.percents /\ Len(value) > 0
  THEN toPercentString(value)
  ELSE value

\* Faulty variant: the decorate argument is ignored.
setInputValue_undecorated(value, decorate, numericOptions) == value

\* The value setInputValue assigns to inputElement.nativeElement.value.
setInputValue(value, decorate, numericOptions) ==
  IF decorate THEN getDecoratedValue(value, numericOptions) ELSE value

\* The invalid field is never assigned after its initializer.
invalid == FALSE

(***************************************************************************)
(* State of one InputComponent instance.                                   *)
(***************************************************************************)
VARIABLES
  focused,            \* this.focused
  currentValue,       \* this.currentValue
  inputBlurOccured,   \* this.inputBlurOccured (undefined is modelled as FALSE)
  inputFocusOccured,  \* this.inputFocusOccured
  mouseDownOccured,   \* this.mouseDownOccured
  propagateChange,    \* TRUE once registerOnChange stored a callback
  maxLength,          \* this.maxLength, 0 when unset
  numeric,            \* this.numeric, NoNumeric when null or unset
  nativeValue,        \* this.inputElement.nativeElement.value
  destroyed,          \* destroy$ has emitted
  pendingCommits,     \* timers of debounceTime(0) that have not fired yet
  calls,              \* observation: what the last handler did, in order: the value
                      \* handed to valueStream$.next, then the calls it made
  emitted,            \* observation: <<v>> for the last value of valueChange, << >> if none
  blurArmed           \* observation: a blur since the last commitProperties run
                      \* happened with percents set and currentValue non-empty

flags == <<inputBlurOccured, inputFocusOccured, mouseDownOccured>>
config == <<maxLength, numeric>>
vars == <<focused, currentValue, inputBlurOccured, inputFocusOccured,
          mouseDownOccured, propagateChange, maxLength, numeric, nativeValue,
          destroyed, pendingCommits, calls, emitted, blurArmed>>

Call(name, arg) == <<name, arg>>
NoArg == EmptyString

Init ==
  /\ focused = FALSE
  /\ currentValue = EmptyString
  /\ inputBlurOccured = FALSE
  /\ inputFocusOccured = FALSE
  /\ mouseDownOccured = FALSE
  /\ propagateChange = FALSE
  /\ maxLength = 0
  /\ numeric = NoNumeric
  /\ nativeValue = EmptyString
  /\ destroyed = FALSE
  /\ pendingCommits = 0
  /\ calls = << >>
  /\ emitted = << >>
  /\ blurArmed = FALSE

(***************************************************************************)
(* The two pipelines built by initializeSubscriptions.                     *)
(***************************************************************************)
\* Faulty variant: the change filter lets every value through.
changeFilter_always(current, value) == TRUE

\* filter(value => this.currentValue !== value)
changeFilter(current, value) == current # value

\* Faulty variant: no debounce, every notification arms a timer of its own.
debounceTime_none(pending) == pending + 1

\* debounceTime(0): a new notification replaces the timer that is pending.
debounceTime(pending) == 1

\* Faulty variant: teardown leaves the pending timer armed.
takeUntilDestroy_keepTimer(pending) == pending

\* takeUntil(this.destroy$) on the debounced stream: teardown drops the timer.
takeUntilDestroy(pending) == 0

\* this.invalidatePropertiesStream$.next()
invalidateProperties ==
  pendingCommits' = IF destroyed THEN pendingCommits ELSE debounceTime(pendingCommits)

\* Faulty variant: the callback guard stops the pipeline, so that nothing is
\* emitted while no callback is registered.
valueStreamNext_callbackGuardsEmit(value, maxLen, numericOptions) ==
  IF destroyed
  THEN /\ UNCHANGED <<nativeValue, currentValue, emitted>>
       /\ calls' = << >>
  ELSE LET processed == processInputValue(toStringOrEmpty(value), maxLen, numericOptions)
           shown     == setInputValue(processed, ~focused, numericOptions)
       IN  /\ nativeValue' = shown
           /\ IF changeFilter(currentValue, processed)
              THEN /\ currentValue' = processed
                   /\ emitted' = IF propagateChange THEN <<processed>> ELSE emitted
                   /\ calls' = <<Call("next", value),
                                 Call("setInputValue", shown),
                                 Call("currentValue", processed)>>
                               \o (IF propagateChange
                                   THEN <<Call("propagateChange", processed),
                                          Call("emit", processed)>>
                                   ELSE << >>)
              ELSE /\ UNCHANGED <<currentValue, emitted>>
                   /\ calls' = <<Call("next", value), Call("setInputValue", shown)>>

\* this.valueStream$.next(value), with the configuration in force at that time.
valueStreamNext(value, maxLen, numericOptions) ==
  IF destroyed
  THEN /\ UNCHANGED <<nativeValue, currentValue, emitted>>
       /\ calls' = << >>
  ELSE LET processed == processInputValue(toStringOrEmpty(value), maxLen, numericOptions)
           shown     == setInputValue(processed, ~focused, numericOptions)
       IN  /\ nativeValue' = shown
           /\ IF changeFilter(currentValue, processed)
              THEN /\ currentValue' = processed
                   /\ emitted' = <<processed>>
                   /\ calls' = <<Call("next", value),
                                 Call("setInputValue", shown),
                                 Call("currentValue", processed)>>
                               \o (IF propagateChange
                                   THEN <<Call("propagateChange", processed)>>
                                   ELSE << >>)
                               \o <<Call("emit", processed)>>
              ELSE /\ UNCHANGED <<currentValue, emitted>>
                   /\ calls' = <<Call("next", value), Call("setInputValue", shown)>>

(***************************************************************************)
(* Lifecycle hooks and the ControlValueAccessor.                           *)
(***************************************************************************)
\* Faulty variant: a change of numeric or maxLength alone feeds currentValue
\* through the value pipeline again.
ngOnChanges_reprocess(changes) ==
  LET newNumeric   == IF changes.hasNumeric
                      THEN mergeNumericOptions(changes.numeric)
                      ELSE numeric
      newMaxLength == IF changes.hasMaxLength THEN changes.maxLength ELSE maxLength
  IN  /\ numeric' = newNumeric
      /\ maxLength' = newMaxLength
      /\ IF changes.hasValue
         THEN valueStreamNext(changes.value, newMaxLength, newNumeric)
         ELSE valueStreamNext(StringValue(currentValue), newMaxLength, newNumeric)
      /\ invalidateProperties
      /\ UNCHANGED <<focused, flags, propagateChange, destroyed, blurArmed>>

ngOnChanges(changes) ==
  LET newNumeric   == IF changes.hasNumeric
                      THEN mergeNumericOptions(changes.numeric)
                      ELSE numeric
      newMaxLength == IF changes.hasMaxLength THEN changes.maxLength ELSE maxLength
  IN  /\ numeric' = newNumeric
      /\ maxLength' = newMaxLength
      /\ IF changes.hasValue
         THEN valueStreamNext(changes.value, newMaxLength, newNumeric)
         ELSE /\ UNCHANGED <<nativeValue, currentValue, emitted>>
              /\ calls' = << >>
      /\ invalidateProperties
      /\ UNCHANGED <<focused, flags, propagateChange, destroyed, blurArmed>>

ngOnDestroy ==
  /\ destroyed' = TRUE
  /\ pendingCommits' = takeUntilDestroy(pendingCommits)
  /\ calls' = << >>
  /\ UNCHANGED <<focused, currentValue, flags, propagateChange, config,
                 nativeValue, emitted, blurArmed>>

writeValue(value) ==
  /\ valueStreamNext(value, maxLength, numeric)
  /\ UNCHANGED <<focused, flags, propagateChange, config, destroyed,
                 pendingCommits, blurArmed>>

registerOnChange ==
  /\ propagateChange' = TRUE
  /\ calls' = << >>
  /\ UNCHANGED <<focused, currentValue, flags, config, nativeValue, destroyed,
                 pendingCommits, emitted, blurArmed>>

(***************************************************************************)
(* DOM event handlers.                                                     *)
(***************************************************************************)
onHostElementMouseDown ==
  /\ mouseDownOccured' = TRUE
  /\ invalidateProperties
  /\ calls' = << >>
  /\ UNCHANGED <<focused, currentValue, inputBlurOccured, inputFocusOccured,
                 propagateChange, config, nativeValue, destroyed, emitted,
                 blurArmed>>

\* Faulty variant: leaving the field re-emits the value it holds.
onInputElementBlur_emits ==
  /\ inputBlurOccured' = TRUE
  /\ invalidateProperties
  /\ calls' = IF destroyed THEN << >> ELSE <<Call("emit", currentValue)>>
  /\ emitted' = IF destroyed THEN emitted ELSE <<currentValue>>
  /\ blurArmed' = (blurArmed \/ (numeric.present /\ numeric.percents
                                  /\ currentValue # EmptyString))
  /\ UNCHANGED <<focused, currentValue, inputFocusOccured, mouseDownOccured,
                 propagateChange, config, nativeValue, destroyed>>

onInputElementBlur ==
  /\ inputBlurOccured' = TRUE
  /\ invalidateProperties
  /\ calls' = << >>
  /\ blurArmed' = (blurArmed \/ (numeric.present /\ numeric.percents
                                  /\ currentValue # EmptyString))
  /\ UNCHANGED <<focused, currentValue, inputFocusOccured, mouseDownOccured,
                 propagateChange, config, nativeValue, destroyed, emitted>>

onInputElementFocus ==
  /\ inputFocusOccured' = TRUE
  /\ invalidateProperties
  /\ calls' = << >>
  /\ UNCHANGED <<focused, currentValue, inputBlurOccured, mouseDownOccured,
                 propagateChange, config, nativeValue, destroyed, emitted,
                 blurArmed>>

\* The event carries the raw text of the input element.
onInputElementInput(text) ==
  /\ valueStreamNext(StringValue(text), maxLength, numeric)
  /\ UNCHANGED <<focused, flags, propagateChange, config, destroyed,
                 pendingCommits, blurArmed>>

(***************************************************************************)
(* commitProperties, run when a debounce timer fires.                      *)
(***************************************************************************)
\* Faulty variant: a host mouse-down is not counted as receiving the focus.
focusReceived_focusOnly(mouseDown, inputFocus) == inputFocus

\* Faulty variant: a focus event is not counted as receiving the focus.
focusReceived_mouseDownOnly(mouseDown, inputFocus) == mouseDown

focusReceived(mouseDown, inputFocus) == mouseDown \/ inputFocus

\* Faulty variant: the decoration policy is inverted.
commitDecorate_inverted(isFocused) == isFocused /\ ~invalid

\* const decorate = !this.focused && !this.invalid, after focused was assigned
commitDecorate(isFocused) == ~isFocused /\ ~invalid

\* nativeElement.focus() on an element that does not hold the DOM focus
\* dispatches a focus event synchronously: onInputElementFocus runs inside
\* commitProperties (refocus), its flag is cleared by the trailing assignments
\* and the timer it armed stays pending.
commitProperties ==
  /\ pendingCommits > 0
  /\ blurArmed' = FALSE
  /\ IF mouseDownOccured \/ inputFocusOccured \/ inputBlurOccured
     THEN LET received == focusReceived(mouseDownOccured, inputFocusOccured)
              focusStateChanged == focused # received \/ inputBlurOccured
              shown == setInputValue(currentValue, commitDecorate(received), numeric)
          IN  /\ focused' = IF focusStateChanged THEN received ELSE focused
              /\ nativeValue' = IF focusStateChanged THEN shown ELSE nativeValue
              /\ \E refocus \in {r \in BOOLEAN : r => (focusStateChanged /\ received)} :
                   /\ pendingCommits' =
                        IF refocus THEN debounceTime(pendingCommits - 1)
                        ELSE pendingCommits - 1
                   /\ calls' = <<Call("commitProperties", NoArg)>>
                        \o (IF focusStateChanged
                            THEN <<Call("setInputValue", shown)>>
                                 \o (IF received THEN <<Call("focus", NoArg)>> ELSE << >>)
                                 \o (IF refocus THEN <<Call("onInputElementFocus", NoArg)>> ELSE << >>)
                                 \o <<Call("detectChanges", NoArg)>>
                            ELSE << >>)
              /\ mouseDownOccured' = FALSE
              /\ inputBlurOccured' = FALSE
              /\ inputFocusOccured' = FALSE
     ELSE /\ pendingCommits' = pendingCommits - 1
          /\ calls' = <<Call("commitProperties", NoArg)>>
          /\ UNCHANGED <<focused, nativeValue, flags>>
  /\ UNCHANGED <<currentValue, propagateChange, config, destroyed, emitted>>

(***************************************************************************)
(* The interaction model: every handler, with every input, in any order.   *)
(***************************************************************************)
Next ==
  \/ \E changes \in SimpleChanges : ngOnChanges(changes)
  \/ ngOnDestroy
  \/ \E value \in Values : writeValue(value)
  \/ registerOnChange
  \/ onHostElementMouseDown
  \/ onInputElementBlur
  \/ onInputElementFocus
  \/ \E text \in Texts : onInputElementInput(text)
  \/ commitProperties

Spec == Init /\ [][Next]_vars

\* The debounce timer is a zero-delay timer of the event loop: it fires.
FairSpec == Spec /\ WF_vars(commitProperties)

(***************************************************************************)
(* The value-processing model: maxLength and numeric are bound once,       *)
(* before any value arrives, and never change; raw texts are longer and    *)
(* over more characters.  InitFixed is the state Spec is in after the      *)
(* first ngOnChanges (maxLength, numeric) and its commitProperties run.    *)
(***************************************************************************)
InitFixed ==
  /\ focused = FALSE
  /\ currentValue = EmptyString
  /\ inputBlurOccured = FALSE
  /\ inputFocusOccured = FALSE
  /\ mouseDownOccured = FALSE
  /\ propagateChange = FALSE
  /\ maxLength \in 0..FnMaxMaxLength
  /\ numeric \in NumericOptions
  /\ nativeValue = EmptyString
  /\ destroyed = FALSE
  /\ pendingCommits = 0
  /\ calls = << >>
  /\ emitted = << >>
  /\ blurArmed = FALSE

\* The parent feeds the value it received from valueChange / propagateChange
\* back into the component (two-way binding, FormControl.setValue).
writeBackEmitted ==
  /\ emitted # << >>
  /\ writeValue(StringValue(emitted[1]))

NextFixed ==
  \/ \E text \in FixedInputs : onInputElementInput(text)
  \/ writeBackEmitted
  \/ registerOnChange

SpecFixed == InitFixed /\ [][NextFixed]_vars

(***************************************************************************)
(* The first input event after maxLength and numeric were bound: the       *)
(* processed value as a function of the raw text and the configuration.    *)
(***************************************************************************)
firstInputEvent(text) ==
  /\ calls = << >>
  /\ currentValue = EmptyString
  /\ onInputElementInput(text)

NextFirstInput == \E text \in FixedInputs : firstInputEvent(text)

SpecFirstInput == InitFixed /\ [][NextFirstInput]_vars

(***************************************************************************)
(* Observations used by the properties.                                    *)
(***************************************************************************)
HasCall(cs, name) == \E i \in 1..Len(cs) : cs[i][1] = name
CommitRan(cs) == cs # << >> /\ cs[1] = Call("commitProperties", NoArg)
AnyOccured == mouseDownOccured \/ inputFocusOccured \/ inputBlurOccured
PercentsSet == numeric.present /\ numeric.percents
Percent(value) == value \o <<"%">>

(***************************************************************************)
(* Properties.                                                             *)
(***************************************************************************)
IsNotification(c) == c[1] \in {"propagateChange", "emit"}

\* C1: propagateChange and valueChange.emit are invoked only with a value that
\* differs from currentValue as it was before the handler ran; hence a
\* notified value differs from the previous emitted one, and the first
\* notified value is not the empty string.
C1_NoPropagationOfUnchanged ==
  [][\A i \in 1..Len(calls') :
       IsNotification(calls'[i]) =>
         /\ calls'[i][2] # currentValue
         /\ emitted # << >> => calls'[i][2] # emitted[1]
         /\ emitted = << >> => calls'[i][2] # EmptyString]_vars

\* A value event re-delivered the value already held: the element was
\* rewritten and nothing was notified.
C1_Witness ==
  /\ emitted = <<currentValue>>
  /\ currentValue # EmptyString
  /\ Len(calls) = 2
  /\ calls[1][1] = "next"
  /\ calls[2][1] = "setInputValue"

\* C2: the displayed value differs from currentValue only while unfocused, and
\* then it is currentValue with a percent sign appended; while focused the
\* displayed value is currentValue.
C2_DisplayedVersusCurrent ==
  /\ nativeValue # currentValue => (~focused /\ nativeValue = Percent(currentValue))
  /\ focused => nativeValue = currentValue

\* commitProperties has just unfocused the element and decorated a non-empty value.
C2_Witness ==
  /\ CommitRan(calls)
  /\ HasCall(calls, "setInputValue")
  /\ ~focused
  /\ currentValue # EmptyString
  /\ nativeValue = Percent(currentValue)

\* C3 as stated: after a blur that happened with percents set and a non-empty
\* currentValue, the next commitProperties run leaves focused false and
\* displays currentValue followed by '%'.
C3_BlurAlwaysDecorates ==
  [][(CommitRan(calls') /\ blurArmed) =>
       (~focused' /\ nativeValue' = Percent(currentValue'))]_vars

\* C3 as amended: a commitProperties run that finds a blur pending and neither
\* a focus nor a host mouse-down pending, with percents set and currentValue
\* non-empty, leaves focused false and displays currentValue followed by '%'.
C3_BlurAloneDecorates ==
  [][(/\ CommitRan(calls')
      /\ inputBlurOccured /\ ~inputFocusOccured /\ ~mouseDownOccured
      /\ PercentsSet
      /\ currentValue # EmptyString) =>
       (~focused' /\ nativeValue' = Percent(currentValue'))]_vars

\* A commitProperties run wrote the decorated value and did not take the focus.
C3_Witness ==
  /\ CommitRan(calls)
  /\ Len(calls) = 3
  /\ calls[2] = Call("setInputValue", Percent(currentValue))
  /\ ~HasCall(calls, "focus")
  /\ PercentsSet
  /\ ~focused

\* C4 as stated: with numeric.integer set, currentValue and the emitted value
\* consist of the digits 0-9 only.
C4_IntegerModeDigitsOnly ==
  (numeric.present /\ numeric.integer) =>
    /\ AllDigits(currentValue)
    /\ emitted # << >> => AllDigits(emitted[1])

\* C5 as stated: with a positive maxLength that never changes, currentValue
\* and the emitted value are at most maxLength characters long.
C5_LengthAtMostMaxLength ==
  maxLength > 0 =>
    /\ Len(currentValue) <= maxLength
    /\ emitted # << >> => Len(emitted[1]) <= maxLength

\* C6: while the component lives, a focus, blur or mouse-down occurrence is
\* followed by a commitProperties run, and that run leaves focused equal to
\* "focus or mouse-down occurred" and the displayed value equal to
\* currentValue, undecorated if focused and decorated otherwise.
C6_OccurrenceLeadsToCommit ==
  /\ (~destroyed /\ AnyOccured) ~> (destroyed \/ ~AnyOccured)
  /\ [][(CommitRan(calls') /\ AnyOccured) =>
          /\ focused' = (mouseDownOccured \/ inputFocusOccured)
          /\ nativeValue' = IF focused' THEN currentValue
                            ELSE IF PercentsSet /\ currentValue # EmptyString
                                 THEN Percent(currentValue)
                                 ELSE currentValue]_vars

\* A commitProperties run took the focus after a host mouse-down or a focus event.
C6_Witness ==
  /\ CommitRan(calls)
  /\ HasCall(calls, "focus")
  /\ focused
  /\ ~AnyOccured
  /\ currentValue # EmptyString

\* C7: once ngOnDestroy has run, no handler runs commitProperties, changes
\* focused or currentValue, rewrites the displayed value or notifies.
C7_NothingAfterDestroy ==
  [][destroyed =>
       /\ UNCHANGED <<focused, currentValue, nativeValue, emitted>>
       /\ calls' = << >>]_vars

\* Teardown happened with occurrences recorded and the timer dropped.
C7_Witness ==
  /\ destroyed
  /\ AnyOccured
  /\ pendingCommits = 0
  /\ currentValue # EmptyString

\* C8: however many invalidations are issued, one timer is pending; the run
\* it triggers consumes it and leaves the three occurrence flags false.
C8_OneCommitPerBurst ==
  /\ [](pendingCommits \in {0, 1})
  /\ []((~destroyed /\ AnyOccured) => pendingCommits = 1)
  /\ [][CommitRan(calls') =>
          /\ pendingCommits = 1
          /\ ~mouseDownOccured' /\ ~inputFocusOccured' /\ ~inputBlurOccured'
          /\ pendingCommits' = IF HasCall(calls', "onInputElementFocus") THEN 1 ELSE 0]_vars

\* Three occurrences are recorded and a single timer is pending.
C8_Witness ==
  /\ pendingCommits = 1
  /\ mouseDownOccured /\ inputFocusOccured /\ inputBlurOccured
  /\ ~destroyed

\* The displayed form of a processed value: decorated exactly when unfocused.
ExpectedDisplay(value, maxLen, numericOptions, isFocused) ==
  LET processed == processInputValue(toStringOrEmpty(value), maxLen, numericOptions)
  IN  IF ~isFocused /\ numericOptions.present /\ numericOptions.percents
         /\ processed # EmptyString
      THEN Percent(processed)
      ELSE processed

\* A handler handed a value to valueStream$.next.
ValueEvent(cs) == cs # << >> /\ cs[1][1] = "next"

\* C9: in every state a value event of a live component leaves (writeValue,
\* input or ngOnChanges with a value handed the value to valueStream$.next),
\* the handler has first rewritten the displayed value to the processed
\* value, decorated exactly when focused is false, whether or not the value
\* passed the change filter.
C9_ValueEventRewritesDisplay ==
  ValueEvent(calls) =>
    /\ Len(calls) >= 2
    /\ calls[2] = Call("setInputValue", nativeValue)
    /\ nativeValue = ExpectedDisplay(calls[1][2], maxLength, numeric, focused)

\* An unfocused value event rewrote the element with the decorated value and
\* notified nothing.
C9_Witness ==
  /\ ~focused
  /\ ~destroyed
  /\ currentValue # EmptyString
  /\ Len(calls) = 2
  /\ ValueEvent(calls)
  /\ calls[2] = Call("setInputValue", Percent(currentValue))

\* C10 as stated: writing the emitted value back, under the same maxLength and
\* numeric, notifies nothing.
C10_WriteBackIsSilent ==
  [][writeBackEmitted =>
       (~HasCall(calls', "emit") /\ ~HasCall(calls', "propagateChange"))]_vars

\* The part of a raw text the maxLength clamp keeps, as a number of characters.
ClampedLen(text, maxLen) ==
  IF maxLen # 0 /\ Len(text) > maxLen THEN maxLen ELSE Len(text)

\* Nothing of the raw text is left after the clamp and the filter: in integer
\* mode no digit is among the characters kept, otherwise no character is kept.
EmptyAfterClampAndFilter(text, maxLen, numericOptions) ==
  IF numericOptions.integer
  THEN \A i \in 1..ClampedLen(text, maxLen) : ~IsDigit(text[i])
  ELSE ClampedLen(text, maxLen) = 0

\* C11: in numeric mode, a value event of a live component whose raw text is
\* empty after clamping and filtering leaves currentValue '0' when
\* preventEmpty is set and the empty string when it is not.
C11_EmptyNumericInput ==
  (/\ ValueEvent(calls)
   /\ numeric.present
   /\ EmptyAfterClampAndFilter(toStringOrEmpty(calls[1][2]), maxLength, numeric)) =>
    currentValue = IF numeric.preventEmpty THEN <<"0">> ELSE EmptyString

\* A non-empty raw text without a digit was processed to '0' under preventEmpty
\* and notified.
C11_Witness ==
  /\ ValueEvent(calls)
  /\ numeric.present /\ numeric.integer /\ numeric.preventEmpty
  /\ calls[1][2].str # EmptyString
  /\ EmptyAfterClampAndFilter(calls[1][2].str, maxLength, numeric)
  /\ currentValue = <<"0">>
  /\ emitted = <<currentValue>>
  /\ HasCall(calls, "emit")

\* The calls a value event makes after setInputValue when its processed value
\* passes the change filter.
NotificationTrace(processed, registered) ==
  <<Call("currentValue", processed)>>
  \o (IF registered THEN <<Call("propagateChange", processed)>> ELSE << >>)
  \o <<Call("emit", processed)>>

\* C12: a value event of a live component that was handed null or undefined
\* (by writeValue or by ngOnChanges) displays, stores and notifies what the
\* same handler does when handed the empty string.
C12_NullIsEmptyString ==
  [][(ValueEvent(calls') /\ calls'[1][2].isNull) =>
       LET empty     == StringValue(EmptyString)
           processed == processInputValue(toStringOrEmpty(empty), maxLength', numeric')
       IN  /\ nativeValue' = ExpectedDisplay(empty, maxLength', numeric', focused')
           /\ calls'[2] = Call("setInputValue", nativeValue')
           /\ currentValue' = processed
           /\ IF processed # currentValue
              THEN /\ emitted' = <<processed>>
                   /\ SubSeq(calls', 3, Len(calls')) =
                        NotificationTrace(processed, propagateChange)
              ELSE /\ emitted' = emitted
                   /\ Len(calls') = 2]_vars

\* null replaced a non-empty value: the empty string was stored and notified
\* to the registered callback and to valueChange.
C12_Witness ==
  /\ ValueEvent(calls)
  /\ calls[1][2].isNull
  /\ currentValue = EmptyString
  /\ nativeValue = EmptyString
  /\ emitted = <<EmptyString>>
  /\ HasCall(calls, "propagateChange")
  /\ HasCall(calls, "emit")

\* The digits among the characters of a raw text that the clamp keeps.
DigitsOfClamped(text, maxLen) ==
  removeNonDigits(SubSeq(text, 1, ClampedLen(text, maxLen)))

\* The first maxLen digits of a raw text.
ClampedDigits(text, maxLen) ==
  LET digits == removeNonDigits(text)
  IN  SubSeq(digits, 1, ClampedLen(digits, maxLen))

\* A value event of a live component in integer mode with a positive maxLength.
IntegerClampedEvent ==
  /\ ValueEvent(calls)
  /\ numeric.present /\ numeric.integer
  /\ maxLength > 0

\* C13 as stated: in integer mode with a positive maxLength n, a value event
\* leaves currentValue equal to the numeric coercion of the digits found in
\* the first n characters of the raw text.
C13_CoercionOfClampedDigits ==
  IntegerClampedEvent =>
    currentValue = numberCoercion(DigitsOfClamped(toStringOrEmpty(calls[1][2]), maxLength))

\* C13 as amended: in integer mode with a positive maxLength n, a value event
\* leaves currentValue equal to the numeric coercion of the digits found in
\* the first n characters of the raw text when there is such a digit or
\* preventEmpty is set, and equal to the empty string otherwise.
C13_ClampBeforeFilter ==
  IntegerClampedEvent =>
    LET digits == DigitsOfClamped(toStringOrEmpty(calls[1][2]), maxLength)
    IN  currentValue = IF digits = EmptyString /\ ~numeric.preventEmpty
                       THEN EmptyString
                       ELSE numberCoercion(digits)

\* The raw text has a non-digit among its first maxLength characters and a
\* digit behind them: the value stored is not the coercion of the first
\* maxLength digits.
C13_Witness ==
  /\ IntegerClampedEvent
  /\ currentValue # EmptyString
  /\ currentValue # numberCoercion(ClampedDigits(calls[1][2].str, maxLength))
  /\ HasCall(calls, "emit")

\* C14: when the processed value of a value event of a live component differs
\* from currentValue, the handler assigns it to currentValue, then calls
\* propagateChange with it if a callback is registered, then emits it on
\* valueChange, each once and in this order; without a registered callback
\* it still assigns and emits.
C14_NotificationOrder ==
  [][ValueEvent(calls') =>
       LET processed == processInputValue(toStringOrEmpty(calls'[1][2]),
                                          maxLength', numeric')
       IN  processed # currentValue =>
             /\ SubSeq(calls', 3, Len(calls')) =
                  NotificationTrace(processed, propagateChange)
             /\ currentValue' = processed
             /\ emitted' = <<processed>>]_vars

\* A changed value was assigned and emitted with no callback registered.
C14_Witness ==
  /\ ValueEvent(calls)
  /\ ~propagateChange
  /\ Len(calls) = 4
  /\ calls[3] = Call("currentValue", currentValue)
  /\ calls[4] = Call("emit", currentValue)
  /\ emitted = <<currentValue>>
  /\ currentValue # EmptyString

\* C15: a commitProperties run that finds a blur pending together with a focus
\* or a host mouse-down, in whatever order the handlers recorded them, sets
\* focused, writes currentValue undecorated to the element and calls focus()
\* on it.
C15_FocusWinsOverBlur ==
  [][(/\ CommitRan(calls')
      /\ inputBlurOccured
      /\ (inputFocusOccured \/ mouseDownOccured)) =>
       /\ focused'
       /\ nativeValue' = currentValue
       /\ calls'[2] = Call("setInputValue", currentValue)
       /\ HasCall(calls', "focus")]_vars

\* With percents set, a commitProperties run wrote the non-empty value
\* undecorated, took the focus and consumed every occurrence.
C15_Witness ==
  /\ CommitRan(calls)
  /\ PercentsSet
  /\ currentValue # EmptyString
  /\ Len(calls) >= 3
  /\ calls[2] = Call("setInputValue", currentValue)
  /\ calls[3] = Call("focus", NoArg)
  /\ focused
  /\ nativeValue = currentValue
  /\ ~AnyOccured

\* A step of a focus, blur or host mouse-down handler, or of commitProperties.
FocusTrackingStep ==
  \/ onHostElementMouseDown
  \/ onInputElementBlur
  \/ onInputElementFocus
  \/ commitProperties

\* C16: the focus, blur and host mouse-down handlers and commitProperties
\* leave currentValue, the registered callback, maxLength, numeric and the
\* last emitted value as they were and call neither propagateChange nor
\* valueChange.emit: of the component's state they change only focused, the
\* three occurrence flags and the displayed value.
C16_FocusTrackingFrame ==
  [][FocusTrackingStep =>
       /\ UNCHANGED <<currentValue, emitted, propagateChange, maxLength,
                      numeric, destroyed>>
       /\ \A i \in 1..Len(calls') : ~IsNotification(calls'[i])]_vars

\* A commitProperties run unfocused the element and decorated the value that
\* had been notified earlier; the registered callback was not called again.
C16_Witness ==
  /\ CommitRan(calls)
  /\ HasCall(calls, "setInputValue")
  /\ ~HasCall(calls, "focus")
  /\ propagateChange
  /\ emitted = <<currentValue>>
  /\ nativeValue # currentValue
  /\ ~AnyOccured

\* C17: a step that changes numeric or maxLength (ngOnChanges without a value
\* change) leaves currentValue, the displayed value, focused and the last
\* emitted value as they were and makes no call; currentValue and the
\* displayed value change only in a value event or in a commitProperties run
\* that rewrites the element on a focus-state change.
C17_ConfigChangeFrame ==
  /\ [][(maxLength' # maxLength \/ numeric' # numeric) =>
          /\ UNCHANGED <<currentValue, nativeValue, emitted, focused>>
          /\ calls' = << >>]_vars
  /\ [][(currentValue' # currentValue \/ nativeValue' # nativeValue) =>
          \/ ValueEvent(calls')
          \/ (AnyOccured /\ CommitRan(calls') /\ HasCall(calls', "setInputValue"))]_vars

\* numeric was rebound to integer mode without percents while the component
\* held a value with a decimal point and displayed it with a percent sign:
\* both are still there, and a commitProperties run is pending.
C17_Witness ==
  /\ numeric.present /\ numeric.integer /\ ~numeric.percents
  /\ ~AllDigits(currentValue)
  /\ nativeValue = Percent(currentValue)
  /\ emitted = <<currentValue>>
  /\ calls = << >>
  /\ pendingCommits = 1
  /\ ~AnyOccured
  /\ ~destroyed

=============================================================================
